---- MODULE Spec2Model ----
(***************************************************************************)
(* DDPG agent of src/DDPG/main_classes.py: the replay memory, the four     *)
(* networks (actor, critic and their targets), the two optimizers, the     *)
(* training step, the soft target update and the checkpoint files.         *)
(*                                                                         *)
(* Numbers are integers.  The rates tau and gamma are fractions            *)
(* (cfg.tau / TauDen, GammaNum / GammaDen) and a product with a rate is    *)
(* rounded down to an integer, as a float product is rounded to a float.   *)
(* A network is cut down to two parameters, a hidden-layer weight and a    *)
(* head bias, and its forward pass to a linear map (the actor's tanh to a  *)
(* clip to [-1, 1]).  An Adam step moves a parameter by lr against the     *)
(* sign of its gradient (Adam's normalised step; the moment estimates are  *)
(* not tracked).                                                           *)
(***************************************************************************)
EXTENDS Integers, Sequences, FiniteSets, TLC

VARIABLES
    cfg,        \* constructor arguments kept on the agent (self.tau, self.batch_size, ...)
    buffer,     \* Replay_Memory.buffer, the deque, oldest entry first
    pushed,     \* history: every experience handed to push, in call order
    params,     \* params[n]: the parameter vector of network n
    grad,       \* grad[n]: the .grad accumulated on the parameters of network n
    training,   \* training[n]: the nn.Module mode flag of network n
    opt,        \* opt.critic_optimizer, opt.actor_optimizer
    files,      \* the checkpoint directory: file name -> stored state_dict
    saved,      \* history: the parameters at the last save_model call
    trained,    \* history: the number of train() calls that took optimizer steps
    calls,      \* history: the number of calls of the agent's other methods
    op,         \* the last method called
    ret,        \* what the last call returned or raised
    loc         \* the local variables of the last train() call that sampled

vars == <<cfg, buffer, pushed, params, grad, training, opt, files, saved, trained, calls, op, ret, loc>>

----------------------------------------------------------------------------
\* Bounds of the model

MaxCap == 2        \* replay_size ranges over 1..MaxCap
MaxBatch == 2      \* batch_size ranges over 1..MaxBatch
MaxPush == 3       \* at most MaxPush calls of push
MaxTrain == 2      \* at most MaxTrain train() calls that take optimizer steps
MaxCalls == 2      \* at most MaxCalls calls besides get_action, update_replay_memory, train
TauDen == 2        \* tau ranges over 0/TauDen .. TauDen/TauDen

\* Program constants

GammaNum == 99     \* gamma = 0.99
GammaDen == 100
WeightDecayNum == 1   \* weight_decay = 0.01 of the critic's first optimizer
WeightDecayDen == 100
Networks == {"actor", "critic", "target_actor", "target_critic"}

\* one value per network
PerNetwork(F(_)) ==
    [actor |-> F("actor"), critic |-> F("critic"),
     target_actor |-> F("target_actor"), target_critic |-> F("target_critic")]

\* one value per parameter of a network
PerParam(F(_)) == <<F(1), F(2)>>

Min(a, b) == IF a < b THEN a ELSE b

Sign(x) == IF x > 0 THEN 1 ELSE IF x < 0 THEN -1 ELSE 0

Clip(x, lo, hi) == IF x < lo THEN lo ELSE IF x > hi THEN hi ELSE x

RECURSIVE SumSeq(_)
SumSeq(s) == IF s = <<>> THEN 0 ELSE Head(s) + SumSeq(Tail(s))

----------------------------------------------------------------------------
\* Replay_Memory

\* The environment steps the driver stores: (state, action, reward, next_state, done)
Steps ==
    { <<0, 1, 1, 1, FALSE>>, <<1, -1, 2, 0, TRUE>> }

\* push: the experience tuple, the reward wrapped in a one-element array
Experience(state, action, reward, next_state, done) ==
    <<state, action, <<reward>>, next_state, done>>

\* (variant) a full deque that drops its newest entry instead of its oldest
DequeAppendDropsNewest(buf, maxlen, e) ==
    IF maxlen = 0 THEN <<>>
    ELSE IF Len(buf) >= maxlen THEN Append(SubSeq(buf, 1, Len(buf) - 1), e)
    ELSE Append(buf, e)

\* deque(maxlen).append: a full deque drops its leftmost entry first
DequeAppend(buf, maxlen, e) ==
    IF maxlen = 0 THEN <<>>
    ELSE IF Len(buf) >= maxlen THEN Append(Tail(buf), e)
    ELSE Append(buf, e)

\* (variant) a draw with replacement, as random.choices would make
SampleWithReplacement(n, k) ==
    IF k > n THEN {} ELSE [1..k -> 1..n]

\* random.sample(population, k): the position sequences it can draw, k
\* pairwise distinct positions in any order; empty when k > n (ValueError)
SamplePositions(n, k) ==
    { q \in [1..k -> 1..n] : \A i, j \in 1..k : i # j => q[i] # q[j] }

\* (variant) a loop that appends done itself, not its negation
UnpackDoneAsIs(batch) ==
    [ state_batch      |-> [i \in 1..Len(batch) |-> batch[i][1]],
      action_batch     |-> [i \in 1..Len(batch) |-> batch[i][2]],
      reward_batch     |-> [i \in 1..Len(batch) |-> batch[i][3]],
      next_state_batch |-> [i \in 1..Len(batch) |-> batch[i][4]],
      done_batch       |-> [i \in 1..Len(batch) |-> batch[i][5]] ]

\* sample's loop: the five batches built from the drawn experiences
Unpack(batch) ==
    [ state_batch      |-> [i \in 1..Len(batch) |-> batch[i][1]],
      action_batch     |-> [i \in 1..Len(batch) |-> batch[i][2]],
      reward_batch     |-> [i \in 1..Len(batch) |-> batch[i][3]],
      next_state_batch |-> [i \in 1..Len(batch) |-> batch[i][4]],
      done_batch       |-> [i \in 1..Len(batch) |-> ~batch[i][5]] ]

\* the value sample returns for the positions q
SampleResult(buf, q) == Unpack([i \in 1..Len(q) |-> buf[q[i]]])

----------------------------------------------------------------------------
\* Actor, Critic

\* state_dict keys, in parameters() order
ActorKeys == <<"fc1.weight", "mu.bias">>
CriticKeys == <<"fc1.weight", "q.bias">>

Keys(n) == IF n \in {"actor", "target_actor"} THEN ActorKeys ELSE CriticKeys

\* Actor.forward: bounded in [-1, 1] by the final tanh
ActorForward(th, state) == Clip(th[1] * state + th[2], -1, 1)

\* Critic.forward: the Q-value of (state, action)
CriticForward(w, state, action) == w[1] * (state + action) + w[2]

\* Actor.init_weights / Critic.init_weights: uniform draws around zero
InitWeights == { <<1, 0>>, <<-1, 1>> }

\* nn.Linear's default initialisation, what a network holds before init_weights
DefaultWeights == { <<1, 0>>, <<-1, 1>> }

----------------------------------------------------------------------------
\* DDPGagent.update_target_weights

\* target_param.data.copy_(param.data * self.tau + target_param.data * (1.0 - tau))
Blend(param, target_param, self_tau, tau) ==
    (param * self_tau + target_param * (TauDen - tau)) \div TauDen

BlendAll(online, target, self_tau, tau) ==
    LET B(k) == Blend(online[k], target[k], self_tau, tau) IN PerParam(B)

\* the two zip loops: target critic from critic, target actor from actor
UpdateTargetWeights(P, self_tau, tau) ==
    [P EXCEPT !["target_critic"] = BlendAll(P["critic"], P["target_critic"], self_tau, tau),
              !["target_actor"]  = BlendAll(P["actor"], P["target_actor"], self_tau, tau)]

----------------------------------------------------------------------------
\* torch.optim.Adam and autograd, as train() uses them

\* (variant) an optimizer built over a network and its target copy
AdamWithTarget(net, lr, weight_decay) ==
    [params |-> {net, "target_" \o net}, lr |-> lr, weight_decay |-> weight_decay]

\* Adam(net.parameters(), lr, weight_decay): the optimizer over one network
Adam(net, lr, weight_decay) ==
    [params |-> {net}, lr |-> lr, weight_decay |-> weight_decay]

\* no gradient on any parameter
NoGrad == LET Z(n) == <<0, 0>> IN PerNetwork(Z)

\* (variant) a zero_grad that is never called
ZeroGradSkipped(G, o) == G

\* optimizer.zero_grad(): clears the gradients of the parameters it holds
ZeroGrad(G, o) ==
    LET Z(n) == IF n \in o.params THEN <<0, 0>> ELSE G[n] IN PerNetwork(Z)

\* optimizer.step(): every parameter it holds moves by lr against the sign of
\* its gradient plus weight_decay * parameter.  Gradients are stored
\* multiplied by batch_size * GammaDen.
AdamStep(P, G, o, B) ==
    LET U(n) ==
          LET V(k) == P[n][k] - o.lr * Sign(WeightDecayDen * G[n][k]
                                            + o.weight_decay * B * GammaDen * P[n][k])
          IN  IF n \in o.params THEN PerParam(V) ELSE P[n]
    IN  PerNetwork(U)

BoolInt(b) == IF b THEN 1 ELSE 0

\* train(): targets = rewards + gamma * not_done * target_critic(next_states,
\* target_actor(next_states))
Targets(P, b) ==
    [i \in 1..Len(b.state_batch) |->
        b.reward_batch[i][1]
        + (GammaNum * BoolInt(b.done_batch[i])
           * CriticForward(P["target_critic"], b.next_state_batch[i],
                           ActorForward(P["target_actor"], b.next_state_batch[i])))
          \div GammaDen]

\* critic_value - targets, per batch element
TDError(P, b, y) ==
    [i \in 1..Len(y) |->
        CriticForward(P["critic"], b.state_batch[i], b.action_batch[i]) - y[i]]

\* loss.backward() of the critic's MSE loss: the gradient reaches the critic
\* and, through the targets (which are not detached), both target networks
CriticLossGrad(P, b, y) ==
    LET N == Len(y)
        e == TDError(P, b, y)
        nd == [i \in 1..N |-> BoolInt(b.done_batch[i])]
        s2 == b.next_state_batch
        a2 == [i \in 1..N |-> ActorForward(P["target_actor"], s2[i])]
    IN  LET D(n) ==
          CASE n = "critic" ->
                 << 2 * GammaDen * SumSeq([i \in 1..N |->
                        e[i] * (b.state_batch[i] + b.action_batch[i])]),
                    2 * GammaDen * SumSeq(e) >>
            [] n = "target_critic" ->
                 << -2 * GammaNum * SumSeq([i \in 1..N |-> e[i] * nd[i] * (s2[i] + a2[i])]),
                    -2 * GammaNum * SumSeq([i \in 1..N |-> e[i] * nd[i]]) >>
            [] n = "target_actor" ->
                 << -2 * GammaNum * SumSeq([i \in 1..N |->
                        e[i] * nd[i] * P["target_critic"][1] * s2[i]]),
                    -2 * GammaNum * SumSeq([i \in 1..N |->
                        e[i] * nd[i] * P["target_critic"][1]]) >>
            [] OTHER -> <<0, 0>>
        IN  PerNetwork(D)

\* actor_loss.backward() of -mean(critic(states, actor(states))): the gradient
\* reaches the actor and, on the way, the critic
ActorLossGrad(P, b) ==
    LET N == Len(b.state_batch)
        mu == [i \in 1..N |-> ActorForward(P["actor"], b.state_batch[i])]
    IN  LET D(n) ==
          CASE n = "actor" ->
                 << -GammaDen * SumSeq([i \in 1..N |-> P["critic"][1] * b.state_batch[i]]),
                    -GammaDen * SumSeq([i \in 1..N |-> P["critic"][1]]) >>
            [] n = "critic" ->
                 << -GammaDen * SumSeq([i \in 1..N |-> b.state_batch[i] + mu[i]]),
                    -GammaDen * N >>
            [] OTHER -> <<0, 0>>
        IN  PerNetwork(D)

\* backward(): gradients accumulate on what is already there
Accumulate(G, D) ==
    LET A(n) == LET S(k) == G[n][k] + D[n][k] IN PerParam(S) IN PerNetwork(A)

\* (variant) a train() that soft-updates the targets before the optimizer steps
TrainStepTargetsFirst(P, G, O, b, tau) ==
    LET B  == Len(b.state_batch)
        y  == Targets(P, b)
        P0 == UpdateTargetWeights(P, tau, tau)
        G1 == ZeroGrad(G, O.critic_optimizer)
        G2 == Accumulate(G1, CriticLossGrad(P0, b, y))
        P1 == AdamStep(P0, G2, O.critic_optimizer, B)
        G3 == ZeroGrad(G2, O.actor_optimizer)
        G4 == Accumulate(G3, ActorLossGrad(P1, b))
        P2 == AdamStep(P1, G4, O.actor_optimizer, B)
    IN  [params |-> P2, grad |-> G4, targets |-> y, critic_grad |-> G2["critic"]]

\* the body of train() after the warm-up guard, for the sampled batch b:
\* the parameters, gradients and targets it ends with
TrainStep(P, G, O, b, tau) ==
    LET B  == Len(b.state_batch)
        y  == Targets(P, b)
        G1 == ZeroGrad(G, O.critic_optimizer)
        G2 == Accumulate(G1, CriticLossGrad(P, b, y))
        P1 == AdamStep(P, G2, O.critic_optimizer, B)
        G3 == ZeroGrad(G2, O.actor_optimizer)
        G4 == Accumulate(G3, ActorLossGrad(P1, b))
        P2 == AdamStep(P1, G4, O.actor_optimizer, B)
        P3 == UpdateTargetWeights(P2, tau, tau)
    IN  [params |-> P3, grad |-> G4, targets |-> y, critic_grad |-> G2["critic"]]

\* (variant) a guard that is off by one
WarmingUpOffByOne(n, replay_min) == n + 1 < replay_min

\* (variant) a guard that only waits for a first transition
WarmingUpUntilFirst(n, replay_min) == n < 1

\* train()'s guard: len(self.memory) < self.replay_min
WarmingUp(n, replay_min) == n < replay_min

\* the module modes train() leaves behind
TrainModes ==
    LET M(n) == n = "actor" IN PerNetwork(M)

----------------------------------------------------------------------------
\* Checkpoints

None == "None"

Names == {"a", "b", "a_target"}

\* os.path.join(chkpt, name + '_ddpg'); no filename attribute without a name
Filename(directory, name) ==
    IF name = None THEN None ELSE directory \o "/" \o name \o "_ddpg"

\* __init__: name_target_critic = name_critic + "_target", and so for the actor
TargetName(name) == IF name = None THEN None ELSE name \o "_target"

\* the filename attribute of each network of an agent
FilenameOf(c, n) ==
    CASE n = "critic"        -> Filename(c.directory, c.name_critic)
      [] n = "target_critic" -> Filename(c.directory, TargetName(c.name_critic))
      [] n = "actor"         -> Filename(c.directory, c.name_actor)
      [] n = "target_actor"  -> Filename(c.directory, TargetName(c.name_actor))

Range(q) == { q[i] : i \in DOMAIN q }

\* nn.Module.state_dict(): key -> value
StateDict(n, P) ==
    [key \in Range(Keys(n)) |->
        P[n][CHOOSE k \in 1..Len(Keys(n)) : Keys(n)[k] = key]]

\* torch.save(obj, filename): creates or overwrites the file
TorchSave(F, filename, obj) ==
    [f \in DOMAIN F \cup {filename} |-> IF f = filename THEN obj ELSE F[f]]

\* load_state_dict (strict): copies every key the module and the file share,
\* then raises if the two key sets differ
LoadStateDict(n, P, sd) ==
    [params |->
        LET L(k) == IF Keys(n)[k] \in DOMAIN sd THEN sd[Keys(n)[k]] ELSE P[n][k]
        IN  [P EXCEPT ![n] = PerParam(L)],
     raised |-> IF Range(Keys(n)) = DOMAIN sd THEN "none" ELSE "RuntimeError"]

\* save_model / load_model call the four networks in this order
CheckpointOrder == <<"actor", "critic", "target_actor", "target_critic">>

\* save_model: the save_checkpoint calls, up to the first that raises
RECURSIVE SaveCheckpoints(_, _, _, _)
SaveCheckpoints(order, c, P, F) ==
    IF order = <<>> THEN [files |-> F, raised |-> "none"]
    ELSE LET fn == FilenameOf(c, Head(order))
         IN  IF fn = None THEN [files |-> F, raised |-> "AttributeError"]
             ELSE SaveCheckpoints(Tail(order), c, P,
                                  TorchSave(F, fn, StateDict(Head(order), P)))

\* load_model: the load_checkpoint calls, up to the first that raises
RECURSIVE LoadCheckpoints(_, _, _, _)
LoadCheckpoints(order, c, P, F) ==
    IF order = <<>> THEN [params |-> P, raised |-> "none"]
    ELSE LET fn == FilenameOf(c, Head(order))
         IN  IF fn = None THEN [params |-> P, raised |-> "AttributeError"]
             ELSE IF fn \notin DOMAIN F THEN [params |-> P, raised |-> "FileNotFoundError"]
             ELSE LET r == LoadStateDict(Head(order), P, F[fn])
                  IN  IF r.raised # "none" THEN r
                      ELSE LoadCheckpoints(Tail(order), c, r.params, F)

----------------------------------------------------------------------------
\* The agent after DDPGagent.__init__

Returned(v) == [raised |-> "none", value |-> v]
Raised(e) == [raised |-> e, value |-> None]
Called(name, args) == [name |-> name, args |-> args]

Configs ==
    [replay_size : 1..MaxCap, replay_min : 0..MaxCap, batch_size : 1..MaxBatch,
     tau : 0..TauDen, name_critic : {"critic"}, name_actor : {"actor"},
     directory : {"models"}]

\* __init__ with the configuration c, the online weights drawn from W
Constructed(c, W) ==
    /\ cfg = c
    /\ buffer = <<>>
    /\ pushed = <<>>
    /\ \E a, w \in W : \E ta, tw \in DefaultWeights :
         params = UpdateTargetWeights(
                    [actor |-> a, critic |-> w, target_actor |-> ta, target_critic |-> tw],
                    c.tau, TauDen)
    /\ grad = NoGrad
    /\ training = [n \in Networks |-> TRUE]
    /\ opt = [critic_optimizer |-> Adam("critic", 1, WeightDecayNum),
              actor_optimizer  |-> Adam("actor", 1, 0)]
    /\ files = [f \in {} |-> None]
    /\ saved = [valid |-> FALSE, params |-> NoGrad]
    /\ trained = 0
    /\ calls = 0
    /\ op = Called("__init__", <<>>)
    /\ ret = Returned(None)
    /\ loc = [batch |-> Unpack(<<>>), targets |-> <<>>, critic_grad |-> <<0, 0>>]

Init == \E c \in Configs : Constructed(c, InitWeights)

----------------------------------------------------------------------------
\* Operations

Observations == {0, 1}

\* Replay_Memory.push(state, action, reward, next_state, done)
Push ==
    /\ Len(pushed) < MaxPush
    /\ \E s \in Steps :
         LET e == Experience(s[1], s[2], s[3], s[4], s[5])
         IN  /\ buffer' = DequeAppend(buffer, cfg.replay_size, e)
             /\ pushed' = Append(pushed, e)
             /\ op' = Called("push", s)
    /\ ret' = Returned(None)
    /\ UNCHANGED <<cfg, params, grad, training, opt, files, saved, trained, calls, loc>>

\* Replay_Memory.sample(batch_size)
Sample ==
    \E k \in 0..MaxBatch :
        /\ op' = Called("sample", <<k>>)
        /\ IF SamplePositions(Len(buffer), k) = {}
           THEN ret' = Raised("ValueError")
           ELSE \E q \in SamplePositions(Len(buffer), k) :
                    ret' = Returned(SampleResult(buffer, q))
        /\ UNCHANGED <<cfg, buffer, pushed, params, grad, training, opt, files, saved,
                       trained, calls, loc>>

\* DDPGagent.update_replay_memory(state, action, reward, next_state, done)
UpdateReplayMemory ==
    /\ Len(pushed) < MaxPush
    /\ \E s \in Steps :
         LET e == Experience(s[1], s[2], s[3], s[4], s[5])
         IN  /\ buffer' = DequeAppend(buffer, cfg.replay_size, e)
             /\ pushed' = Append(pushed, e)
             /\ op' = Called("update_replay_memory", s)
    /\ ret' = Returned(None)
    /\ UNCHANGED <<cfg, params, grad, training, opt, files, saved, trained, calls, loc>>

\* DDPGagent.get_action(observation)
GetAction ==
    \E o \in Observations :
        /\ training' = [training EXCEPT !["actor"] = FALSE]
        /\ op' = Called("get_action", <<o>>)
        /\ ret' = Returned(ActorForward(params["actor"], o))
        /\ UNCHANGED <<cfg, buffer, pushed, params, grad, opt, files, saved, trained, calls, loc>>

\* DDPGagent.train()
Train ==
    /\ op' = Called("train", <<>>)
    /\ IF WarmingUp(Len(buffer), cfg.replay_min)
       THEN /\ ret' = Returned(None)
            /\ UNCHANGED <<params, grad, training, trained, loc>>
       ELSE IF SamplePositions(Len(buffer), cfg.batch_size) = {}
       THEN /\ ret' = Raised("ValueError")
            /\ UNCHANGED <<params, grad, training, trained, loc>>
       ELSE /\ trained < MaxTrain
            /\ \E q \in SamplePositions(Len(buffer), cfg.batch_size) :
                 \E b \in {SampleResult(buffer, q)} :
                 \E r \in {TrainStep(params, grad, opt, b, cfg.tau)} :
                     /\ params' = r.params
                     /\ grad' = r.grad
                     /\ loc' = [batch |-> b, targets |-> r.targets,
                                critic_grad |-> r.critic_grad]
            /\ training' = TrainModes
            /\ trained' = trained + 1
            /\ ret' = Returned(None)
    /\ UNCHANGED <<cfg, buffer, pushed, opt, files, saved, calls>>

\* DDPGagent.update_target_weights(tau)
UpdateTargetWeightsCall ==
    /\ calls < MaxCalls
    /\ \E tau \in 0..TauDen :
         /\ params' = UpdateTargetWeights(params, cfg.tau, tau)
         /\ op' = Called("update_target_weights", <<tau>>)
    /\ ret' = Returned(None)
    /\ calls' = calls + 1
    /\ UNCHANGED <<cfg, buffer, pushed, grad, training, opt, files, saved, trained, loc>>

LearningRates == {2}

\* DDPGagent.update_critic_optimizer(learning_rate)
UpdateCriticOptimizer ==
    /\ calls < MaxCalls
    /\ \E lr \in LearningRates :
         /\ opt' = [opt EXCEPT !.critic_optimizer = Adam("critic", lr, 0)]
         /\ op' = Called("update_critic_optimizer", <<lr>>)
    /\ ret' = Returned(None)
    /\ calls' = calls + 1
    /\ UNCHANGED <<cfg, buffer, pushed, params, grad, training, files, saved, trained, loc>>

\* DDPGagent.update_actor_optimizer(learning_rate)
UpdateActorOptimizer ==
    /\ calls < MaxCalls
    /\ \E lr \in LearningRates :
         /\ opt' = [opt EXCEPT !.actor_optimizer = Adam("actor", lr, 0)]
         /\ op' = Called("update_actor_optimizer", <<lr>>)
    /\ ret' = Returned(None)
    /\ calls' = calls + 1
    /\ UNCHANGED <<cfg, buffer, pushed, params, grad, training, files, saved, trained, loc>>

\* DDPGagent.save_model()
SaveModel ==
    /\ calls < MaxCalls
    /\ \E r \in {SaveCheckpoints(CheckpointOrder, cfg, params, files)} :
         /\ files' = r.files
         /\ ret' = IF r.raised = "none" THEN Returned(None) ELSE Raised(r.raised)
    /\ saved' = [valid |-> TRUE, params |-> params]
    /\ op' = Called("save_model", <<>>)
    /\ calls' = calls + 1
    /\ UNCHANGED <<cfg, buffer, pushed, params, grad, training, opt, trained, loc>>

\* DDPGagent.load_model()
LoadModel ==
    /\ calls < MaxCalls
    /\ \E r \in {LoadCheckpoints(CheckpointOrder, cfg, params, files)} :
         /\ params' = r.params
         /\ ret' = IF r.raised = "none" THEN Returned(None) ELSE Raised(r.raised)
    /\ op' = Called("load_model", <<>>)
    /\ calls' = calls + 1
    /\ UNCHANGED <<cfg, buffer, pushed, grad, training, opt, files, saved, trained, loc>>

----------------------------------------------------------------------------
\* Specifications

\* the training loop around one agent: act, store, train
Next == GetAction \/ UpdateReplayMemory \/ Train

Spec == Init /\ [][Next]_vars

\* the replay memory alone, for every capacity
BufferConfigs == { c \in Configs : c.replay_min = 1 /\ c.batch_size = 1 /\ c.tau = TauDen }

InitBuffer == \E c \in BufferConfigs : Constructed(c, InitWeights)

NextBuffer == Push \/ Sample

SpecBuffer == InitBuffer /\ [][NextBuffer]_vars

\* the agent's maintenance methods beside the training loop
APIConfigs ==
    { c \in Configs : c.replay_size = MaxCap /\ c.replay_min = 1 /\ c.batch_size = 1 }

InitAPI == \E c \in APIConfigs : Constructed(c, {<<-1, 1>>})

NextAPI ==
    \/ UpdateReplayMemory \/ Train
    \/ UpdateTargetWeightsCall \/ UpdateCriticOptimizer \/ UpdateActorOptimizer

SpecAPI == InitAPI /\ [][NextAPI]_vars

\* checkpoints, for every pair of checkpoint names
CheckpointConfigs ==
    [replay_size : {MaxCap}, replay_min : {1}, batch_size : {1}, tau : {1},
     name_critic : Names, name_actor : Names, directory : {"models"}]

InitCheckpoint == \E c \in CheckpointConfigs : Constructed(c, {<<1, 0>>})

NextCheckpoint == UpdateReplayMemory \/ Train \/ SaveModel \/ LoadModel

SpecCheckpoint == InitCheckpoint /\ [][NextCheckpoint]_vars

----------------------------------------------------------------------------
\* Properties of the replay memory

\* the last m entries of a sequence
LastN(q, m) == SubSeq(q, Len(q) - m + 1, Len(q))

\* C1: the buffer never holds more than its capacity, and after n pushes it
\* holds exactly the last min(n, capacity) pushed transitions, in push order.
C1_FifoEviction ==
    /\ Len(buffer) <= cfg.replay_size
    /\ buffer = LastN(pushed, Min(Len(pushed), cfg.replay_size))

\* a full buffer of two different transitions that has already evicted one
C1_Witness ==
    /\ Len(pushed) > cfg.replay_size
    /\ Len(buffer) = cfg.replay_size
    /\ cfg.replay_size >= 2
    /\ buffer[1] # buffer[2]
    /\ pushed[1] # buffer[1]

\* C2: sample(k) on a buffer of n >= k transitions returns k entries that are
\* the fields of k pairwise distinct positions of the buffer, and leaves the
\* buffer as it was.
C2_SampleDistinct ==
    [][ op'.name = "sample" =>
          LET k == op'.args[1]
              n == Len(buffer)
          IN  /\ buffer' = buffer
              /\ k <= n =>
                   /\ ret'.raised = "none"
                   /\ Len(ret'.value.state_batch) = k
                   /\ Len(ret'.value.action_batch) = k
                   /\ Len(ret'.value.reward_batch) = k
                   /\ Len(ret'.value.next_state_batch) = k
                   /\ Len(ret'.value.done_batch) = k
                   /\ \E q \in [1..k -> 1..n] :
                        /\ \A i, j \in 1..k : i # j => q[i] # q[j]
                        /\ \A i \in 1..k :
                             /\ ret'.value.state_batch[i] = buffer[q[i]][1]
                             /\ ret'.value.action_batch[i] = buffer[q[i]][2]
                             /\ ret'.value.reward_batch[i] = buffer[q[i]][3]
                             /\ ret'.value.next_state_batch[i] = buffer[q[i]][4] ]_vars

\* a sample of two out of a buffer of two different transitions
C2_Witness ==
    /\ op.name = "sample"
    /\ op.args[1] = 2
    /\ ret.raised = "none"
    /\ Len(buffer) = 2
    /\ buffer[1] # buffer[2]

----------------------------------------------------------------------------
\* Properties of the training step

\* a step that is a train() call which got past the warm-up guard and sampled
TrainedStep == op'.name = "train" /\ trained' = trained + 1

TargetParams(P) == <<P["target_actor"], P["target_critic"]>>

\* C3: train() while len(memory) < replay_min changes neither the parameters
\* of any of the four networks nor the buffer, and no call that leaves the
\* buffer below replay_min changes a parameter.
C3_WarmupNoOp ==
    [][ /\ (op'.name = "train" /\ Len(buffer) < cfg.replay_min) =>
             /\ params' = params
             /\ buffer' = buffer
             /\ ret'.raised = "none"
        /\ Len(buffer') < cfg.replay_min => params' = params ]_vars

\* train() was called on a buffer that holds transitions, but fewer than replay_min
C3_Witness ==
    /\ op.name = "train"
    /\ Len(buffer) >= 1
    /\ Len(buffer) < cfg.replay_min

\* C5: a target parameter changes only in a train() call that passed the
\* warm-up guard, and then to the soft update of its old value; no optimizer
\* step and no other operation writes it.
C5_TargetsOnlySoftUpdated ==
    [][ \/ TargetParams(params') = TargetParams(params)
        \/ /\ op'.name = "train"
           /\ Len(buffer) >= cfg.replay_min
           /\ \A k \in 1..2 :
                /\ params'["target_actor"][k] =
                     (cfg.tau * params'["actor"][k]
                      + (TauDen - cfg.tau) * params["target_actor"][k]) \div TauDen
                /\ params'["target_critic"][k] =
                     (cfg.tau * params'["critic"][k]
                      + (TauDen - cfg.tau) * params["target_critic"][k]) \div TauDen
      ]_vars

\* a train() call has run its backward pass, which left a gradient on the
\* target critic's parameters
C5_Witness ==
    /\ op.name = "train"
    /\ trained >= 1
    /\ grad["target_critic"] # <<0, 0>>

\* C7 as stated: for every configuration, train() never fails on insufficient
\* data.
C7_NeverInsufficient ==
    ~(op.name = "train" /\ ret.raised = "ValueError")

\* C7 amended: for every configuration with batch_size <= replay_min, a
\* train() call is a no-op or samples a full batch, and never fails on
\* insufficient data.
C7_SufficientWhenMinCoversBatch ==
    (cfg.batch_size <= cfg.replay_min /\ op.name = "train") =>
        /\ ret.raised = "none"
        /\ Len(buffer) >= cfg.replay_min =>
             /\ Len(buffer) >= cfg.batch_size
             /\ Len(loc.batch.state_batch) = cfg.batch_size

\* train() sampled from a buffer that holds exactly batch_size transitions
C7_Witness ==
    /\ op.name = "train"
    /\ trained >= 1
    /\ cfg.batch_size = 2
    /\ cfg.batch_size <= cfg.replay_min
    /\ Len(buffer) = cfg.batch_size

\* C8: the five sequences of a sampled batch hold, index by index, the fields
\* of one stored transition, the fifth the negation of its done flag; the
\* target of element i is reward_i when the transition was stored done, and
\* reward_i + gamma * Q_target(next_state_i, target_actor(next_state_i))
\* otherwise.
C8_AlignedBatchAndTargets ==
    [][ TrainedStep =>
          \E q \in [1..cfg.batch_size -> 1..Len(buffer)] :
            \A i \in 1..cfg.batch_size :
              LET e == buffer[q[i]]
                  b == loc'.batch
              IN  /\ b.state_batch[i] = e[1]
                  /\ b.action_batch[i] = e[2]
                  /\ b.reward_batch[i] = e[3]
                  /\ b.next_state_batch[i] = e[4]
                  /\ b.done_batch[i] = ~e[5]
                  /\ loc'.targets[i] =
                       IF e[5] THEN e[3][1]
                       ELSE e[3][1]
                            + (GammaNum * CriticForward(params["target_critic"], e[4],
                                   ActorForward(params["target_actor"], e[4])))
                              \div GammaDen ]_vars

\* a trained batch that holds a terminal and a non-terminal transition, the
\* non-terminal one with a bootstrapped target that differs from its reward
C8_Witness ==
    /\ op.name = "train"
    /\ trained >= 1
    /\ \E i, j \in 1..Len(loc.targets) :
         /\ ~loc.batch.done_batch[i]
         /\ loc.batch.done_batch[j]
         /\ loc.targets[j] # loc.batch.reward_batch[j][1]

\* C9: a train() call that passes the guard computes its targets from the
\* target networks as they are before the call, steps the critic once on the
\* critic loss, steps the actor once on the actor loss evaluated with the
\* stepped critic, and ends with target_new = tau * online_new + (1 - tau) *
\* target_old for every parameter of both target networks.
C9_TrainOrder ==
    [][ TrainedStep =>
          LET b  == loc'.batch
              B  == cfg.batch_size
              y  == Targets(params, b)
              P1 == AdamStep(params, CriticLossGrad(params, b, y), opt.critic_optimizer, B)
              P2 == AdamStep(P1, ActorLossGrad(P1, b), opt.actor_optimizer, B)
          IN  /\ loc'.targets = y
              /\ params'["critic"] = P1["critic"]
              /\ P1["actor"] = params["actor"]
              /\ params'["actor"] = P2["actor"]
              /\ P2["critic"] = P1["critic"]
              /\ \A k \in 1..2 :
                   /\ TauDen * params'["target_critic"][k]
                        <= cfg.tau * P2["critic"][k]
                           + (TauDen - cfg.tau) * params["target_critic"][k]
                   /\ TauDen * (params'["target_critic"][k] + 1)
                        > cfg.tau * P2["critic"][k]
                          + (TauDen - cfg.tau) * params["target_critic"][k]
                   /\ TauDen * params'["target_actor"][k]
                        <= cfg.tau * P2["actor"][k]
                           + (TauDen - cfg.tau) * params["target_actor"][k]
                   /\ TauDen * (params'["target_actor"][k] + 1)
                        > cfg.tau * P2["actor"][k]
                          + (TauDen - cfg.tau) * params["target_actor"][k] ]_vars

\* a train() call with 0 < tau < 1 that left both target networks away from
\* their online networks
C9_Witness ==
    /\ op.name = "train"
    /\ trained >= 1
    /\ cfg.tau > 0
    /\ cfg.tau < TauDen
    /\ params["target_critic"] # params["critic"]
    /\ params["target_actor"] # params["actor"]

\* C10: every critic optimizer step applies the gradient of that call's
\* critic loss alone: what the actor pass left on the critic's parameters is
\* cleared first, and the actor pass itself leaves the critic's parameters
\* as the critic step set them.
C10_CriticStepsOnCriticLoss ==
    [][ TrainedStep =>
          LET b == loc'.batch
              y == Targets(params, b)
              g == CriticLossGrad(params, b, y)["critic"]
          IN  /\ loc'.critic_grad = g
              /\ \A k \in 1..2 :
                   params'["critic"][k] =
                     params["critic"][k]
                     - opt.critic_optimizer.lr
                       * Sign(WeightDecayDen * g[k]
                              + opt.critic_optimizer.weight_decay * cfg.batch_size
                                * GammaDen * params["critic"][k])
              /\ opt.critic_optimizer.params = {"critic"}
              /\ opt.actor_optimizer.params = {"actor"} ]_vars

\* a second train() call: the first one's actor pass had left a gradient on
\* the critic, and this one's left one again
C10_Witness ==
    /\ op.name = "train"
    /\ trained >= 2
    /\ grad["critic"] # loc.critic_grad

----------------------------------------------------------------------------
\* Properties of update_target_weights and of the checkpoints

\* C4 as stated: update_target_weights with blend factor 1 makes every target
\* parameter equal to its online parameter, and with blend factor 0 leaves
\* every target parameter unchanged.
C4_HardCopyAndZeroBlend ==
    [][ op'.name = "update_target_weights" =>
          /\ op'.args[1] = TauDen =>
               /\ params'["target_actor"] = params'["actor"]
               /\ params'["target_critic"] = params'["critic"]
          /\ op'.args[1] = 0 => TargetParams(params') = TargetParams(params) ]_vars

\* C6 as stated: load_model after save_model restores all four networks to
\* the parameters they had at the save_model call.
C6_RoundTrip ==
    (op.name = "load_model" /\ saved.valid) =>
        /\ ret.raised = "none"
        /\ params = saved.params

====
